---------------------------- MODULE Spec2Model ----------------------------
(***************************************************************************)
(* The external scanner of tree-sitter-zsh (src/scanner.c): the four       *)
(* lifecycle hooks and tree_sitter_zsh_external_scanner_scan, which        *)
(* recognises UNQUOTED_WHITESPACE.  scan is modelled statement by          *)
(* statement; pc names the source line about to be executed.               *)
(***************************************************************************)
EXTENDS Integers, Sequences, FiniteSets, TLC

VARIABLES
    input,          \* the source text behind the lexer, a sequence of code points
    pos,            \* number of characters of input the lexer has consumed
    result_symbol,  \* lexer->result_symbol
    valid_symbols,  \* the valid_symbols array of the running (or last) call
    payload,        \* the payload argument of the running (or last) call
    pc,             \* "idle", a line of scan ("L21".."L35"), or "done"
    ret,            \* value returned by the last completed call (FALSE until one returns)
    advances,       \* the advance calls of this call: <<[ch, skip], ...>>
    pos0,           \* pos when the call was entered
    sym0,           \* result_symbol when the call was entered
    prev,           \* <<outcome>> of the preceding call, kept while the next call
                    \* starts from the same lexer state and valid_symbols
    handle,         \* <<what create last returned>>, <<>> before any create
    serLen,         \* <<what serialize last returned>>, <<>> before any
    buffer          \* bytes written into the host's serialization buffer

vars == <<input, pos, result_symbol, valid_symbols, payload, pc, ret,
          advances, pos0, sym0, prev, handle, serLen, buffer>>

---------------------------------------------------------------------------
(* Bounds of the model *)

MaxLen == 4

MaxHostLen == 3

MaxFairLen == 3

---------------------------------------------------------------------------
(* Program constants *)

UNQUOTED_WHITESPACE == 0

Backslash == 92

Space == 32

Tab == 9

Newline == 10

EOF == 0

NULL == "NULL"

None == <<>>

OtherSymbol == UNQUOTED_WHITESPACE + 1

Alphabet == {Backslash, Space, Tab, Newline, 120}

Payloads == {NULL, "ptr"}

Symbols == {UNQUOTED_WHITESPACE, OtherSymbol}

ValidSets == [{UNQUOTED_WHITESPACE} -> BOOLEAN]

Inputs(n) == UNION {[1..k -> Alphabet] : k \in 0..n}

---------------------------------------------------------------------------
(* The lexer the host hands to scan *)

CharAt(s, p) == IF p < Len(s) THEN s[p + 1] ELSE EOF

lookahead == CharAt(input, pos)

Advance(skip) ==
    /\ advances' = Append(advances, [ch |-> lookahead, skip |-> skip])
    /\ pos' = IF pos < Len(input) THEN pos + 1 ELSE pos

---------------------------------------------------------------------------
(* scan, line by line *)

IsWhitespaceNoTab(c) == c = Space \/ c = Newline

IsWhitespaceLE(c) == c <= Space

IsWhitespace(c) == c = Space \/ c = Tab \/ c = Newline

BackslashSkipTrue == TRUE

BackslashSkip == FALSE

WhitespaceSkip == FALSE

Outcome == [ret |-> ret, consumed |-> pos - pos0, sym |-> result_symbol,
            payload |-> payload]

Call(p, v, newpos, newsym) ==
    /\ pc \in {"idle", "done"}
    /\ pc' = "L21"
    /\ payload' = p
    /\ valid_symbols' = v
    /\ pos' = newpos
    /\ result_symbol' = newsym
    /\ pos0' = newpos
    /\ sym0' = newsym
    /\ advances' = <<>>
    /\ ret' = FALSE
    /\ prev' = IF pc = "done" /\ newpos = pos0 /\ newsym = sym0
                               /\ v = valid_symbols
               THEN <<Outcome>> ELSE None
    /\ UNCHANGED <<input, handle, serLen, buffer>>

Scan == \E p \in Payloads, v \in ValidSets : Call(p, v, pos, result_symbol)

Rescan == \E p \in Payloads :
    /\ pc = "done"
    /\ Call(p, valid_symbols, pos0, sym0)

CheckValidIgnored ==
    /\ pc = "L21"
    /\ pc' = "L22"
    /\ UNCHANGED <<input, pos, result_symbol, valid_symbols, payload, ret,
                   advances, pos0, sym0, prev, handle, serLen, buffer>>

CheckValid ==
    /\ pc = "L21"
    /\ pc' = IF valid_symbols[UNQUOTED_WHITESPACE] THEN "L22" ELSE "L35"
    /\ UNCHANGED <<input, pos, result_symbol, valid_symbols, payload, ret,
                   advances, pos0, sym0, prev, handle, serLen, buffer>>

SkipBackslashNoAdvance ==
    /\ pc = "L22"
    /\ pc' = "L25"
    /\ UNCHANGED <<input, pos, result_symbol, valid_symbols, payload, ret,
                   advances, pos0, sym0, prev, handle, serLen, buffer>>

SkipBackslashes ==
    /\ pc = "L22"
    /\ IF lookahead = Backslash
       THEN /\ Advance(BackslashSkip)
            /\ pc' = "L22"
       ELSE /\ pc' = "L25"
            /\ UNCHANGED <<pos, advances>>
    /\ UNCHANGED <<input, result_symbol, valid_symbols, payload, ret,
                   pos0, sym0, prev, handle, serLen, buffer>>

SkipBackslashIfPayload ==
    /\ pc = "L22"
    /\ IF lookahead = Backslash /\ payload # NULL
       THEN Advance(BackslashSkip)
       ELSE UNCHANGED <<pos, advances>>
    /\ pc' = "L25"
    /\ UNCHANGED <<input, result_symbol, valid_symbols, payload, ret,
                   pos0, sym0, prev, handle, serLen, buffer>>

SkipBackslash ==
    /\ pc = "L22"
    /\ IF lookahead = Backslash
       THEN Advance(BackslashSkip)
       ELSE UNCHANGED <<pos, advances>>
    /\ pc' = "L25"
    /\ UNCHANGED <<input, result_symbol, valid_symbols, payload, ret,
                   pos0, sym0, prev, handle, serLen, buffer>>

TestWhitespace ==
    /\ pc = "L25"
    /\ pc' = IF IsWhitespace(lookahead) THEN "L27" ELSE "L35"
    /\ UNCHANGED <<input, pos, result_symbol, valid_symbols, payload, ret,
                   advances, pos0, sym0, prev, handle, serLen, buffer>>

LoopOnce ==
    /\ pc = "L27"
    /\ IF IsWhitespace(lookahead)
       THEN Advance(WhitespaceSkip)
       ELSE UNCHANGED <<pos, advances>>
    /\ pc' = "L31"
    /\ UNCHANGED <<input, result_symbol, valid_symbols, payload, ret,
                   pos0, sym0, prev, handle, serLen, buffer>>

Loop ==
    /\ pc = "L27"
    /\ IF IsWhitespace(lookahead)
       THEN /\ Advance(WhitespaceSkip)
            /\ pc' = "L27"
       ELSE /\ pc' = "L31"
            /\ UNCHANGED <<pos, advances>>
    /\ UNCHANGED <<input, result_symbol, valid_symbols, payload, ret,
                   pos0, sym0, prev, handle, serLen, buffer>>

ReturnTrue ==
    /\ pc = "L31"
    /\ result_symbol' = UNQUOTED_WHITESPACE
    /\ ret' = TRUE
    /\ pc' = "done"
    /\ UNCHANGED <<input, pos, valid_symbols, payload, advances, pos0, sym0,
                   prev, handle, serLen, buffer>>

ReturnFalseClearsSymbol ==
    /\ pc = "L35"
    /\ result_symbol' = UNQUOTED_WHITESPACE
    /\ ret' = FALSE
    /\ pc' = "done"
    /\ UNCHANGED <<input, pos, valid_symbols, payload,
                   advances, pos0, sym0, prev, handle, serLen, buffer>>

ReturnFalse ==
    /\ pc = "L35"
    /\ ret' = FALSE
    /\ pc' = "done"
    /\ UNCHANGED <<input, pos, result_symbol, valid_symbols, payload,
                   advances, pos0, sym0, prev, handle, serLen, buffer>>

ScanStep ==
    \/ CheckValid
    \/ SkipBackslash
    \/ TestWhitespace
    \/ Loop
    \/ ReturnTrue
    \/ ReturnFalse

---------------------------------------------------------------------------
(* The lifecycle hooks *)

Create ==
    /\ pc \in {"idle", "done"}
    /\ handle' = <<NULL>>
    /\ UNCHANGED <<input, pos, result_symbol, valid_symbols, payload, pc, ret,
                   advances, pos0, sym0, prev, serLen, buffer>>

Destroy == \E p \in Payloads :
    /\ pc \in {"idle", "done"}
    /\ UNCHANGED vars

Serialize == \E p \in Payloads :
    /\ pc \in {"idle", "done"}
    /\ serLen' = <<0>>
    /\ UNCHANGED <<input, pos, result_symbol, valid_symbols, payload, pc, ret,
                   advances, pos0, sym0, prev, handle, buffer>>

Deserialize == \E p \in Payloads, b \in Inputs(1), n \in 0..1 :
    /\ pc \in {"idle", "done"}
    /\ UNCHANGED vars

---------------------------------------------------------------------------
(* Specifications *)

InitWith(n) ==
    /\ input \in Inputs(n)
    /\ pos \in 0..Len(input)
    /\ result_symbol \in Symbols
    /\ valid_symbols \in ValidSets
    /\ payload = NULL
    /\ pc = "idle"
    /\ ret = FALSE
    /\ advances = <<>>
    /\ pos0 = pos
    /\ sym0 = result_symbol
    /\ prev = None
    /\ handle = None
    /\ serLen = None
    /\ buffer = <<>>

Init == InitWith(MaxLen)

Next == Scan \/ ScanStep

Spec == Init /\ [][Next]_vars

HostInit == InitWith(MaxHostLen)

HostNext ==
    \/ Scan
    \/ Rescan
    \/ ScanStep
    \/ Create
    \/ Destroy
    \/ Serialize
    \/ Deserialize

HostSpec == HostInit /\ [][HostNext]_vars

FairInit == InitWith(MaxFairLen)

FairSpec == FairInit /\ [][Next]_vars /\ WF_vars(ScanStep)

---------------------------------------------------------------------------
(* Vocabulary of the properties, independent of the definitions above *)

WhitespaceChars == {Space, Tab, Newline}

RECURSIVE RunLen(_, _)
RunLen(s, p) ==
    IF CharAt(s, p) \in WhitespaceChars THEN 1 + RunLen(s, p + 1) ELSE 0

Slice(s, p, n) == [i \in 1..n |-> s[p + i]]

first == CharAt(input, pos0)

second == CharAt(input, pos0 + 1)

valid == valid_symbols[UNQUOTED_WHITESPACE]

Done == pc = "done"

Running == pc \notin {"idle", "done"}

consumed == pos - pos0

SkippedUpTo ==
    IF \E i \in 1..Len(advances) : advances[i].skip
    THEN CHOOSE i \in 1..Len(advances) :
            /\ advances[i].skip
            /\ \A j \in (i + 1)..Len(advances) : ~advances[j].skip
    ELSE 0

TokenText ==
    [i \in 1..(Len(advances) - SkippedUpTo) |-> advances[i + SkippedUpTo].ch]

---------------------------------------------------------------------------
(* C1: while UNQUOTED_WHITESPACE is not valid, a call makes no advance call, *)
(* leaves the cursor and the result slot as they were, and returns false,   *)
(* whatever characters are at the cursor.                                   *)
C1_InvalidIsNoOp ==
    (pc # "idle" /\ ~valid) =>
        /\ advances = <<>>
        /\ pos = pos0
        /\ result_symbol = sym0
        /\ (Done => ret = FALSE)

C1_Witness ==
    /\ Done /\ ~valid
    /\ first = Backslash /\ second \in WhitespaceChars
    /\ sym0 = OtherSymbol

(* C2: with the symbol valid and whitespace at the cursor, scan returns     *)
(* true, consumes exactly the maximal run of space, tab, newline, stops at  *)
(* a lookahead that is none of them and reports UNQUOTED_WHITESPACE.        *)
C2_MaximalRun ==
    (Done /\ valid /\ first \in WhitespaceChars) =>
        /\ ret = TRUE
        /\ consumed = RunLen(input, pos0)
        /\ Len(advances) = consumed
        /\ lookahead \notin WhitespaceChars
        /\ result_symbol = UNQUOTED_WHITESPACE

C2_Witness ==
    /\ Done /\ valid /\ first = Space /\ second = Tab
    /\ CharAt(input, pos0 + 2) = Newline
    /\ consumed = 3 /\ lookahead = 120 /\ sym0 = OtherSymbol

(* C3: with the symbol valid and a backslash followed by whitespace at the  *)
(* cursor, scan returns true, consumes the backslash plus the maximal       *)
(* whitespace run after it, and reports UNQUOTED_WHITESPACE.                *)
C3_BackslashRun ==
    (Done /\ valid /\ first = Backslash /\ second \in WhitespaceChars) =>
        /\ ret = TRUE
        /\ consumed = 1 + RunLen(input, pos0 + 1)
        /\ result_symbol = UNQUOTED_WHITESPACE

C3_Witness ==
    /\ Done /\ valid /\ pos0 = 0
    /\ input = <<Backslash, Space, Space, 120>>
    /\ consumed = 3 /\ lookahead = 120 /\ sym0 = OtherSymbol

(* C4: with the symbol valid and a backslash followed by anything but       *)
(* whitespace (another backslash, an ordinary character, end of stream),    *)
(* scan returns false having advanced past exactly that one backslash.      *)
C4_LoneBackslash ==
    (Done /\ valid /\ first = Backslash /\ second \notin WhitespaceChars) =>
        /\ ret = FALSE
        /\ consumed = 1
        /\ Len(advances) = 1

C4_Witness ==
    /\ Done /\ valid /\ first = Backslash /\ second = Backslash
    /\ CharAt(input, pos0 + 2) = Space
    /\ ret = FALSE

(* C5: whenever scan returns false the cursor is where it was at the call.  *)
C5_NoAdvanceOnFalse ==
    (Done /\ ret = FALSE) => pos = pos0

(* C6: with the symbol valid and a lookahead that is neither backslash nor  *)
(* whitespace (end of stream included), the call never advances and         *)
(* returns false.                                                           *)
C6_OtherLookahead ==
    (pc # "idle" /\ valid /\ first \notin WhitespaceChars \cup {Backslash}) =>
        /\ advances = <<>>
        /\ pos = pos0
        /\ (Done => ret = FALSE)

C6_Witness ==
    /\ Done /\ valid /\ first = EOF /\ pos0 = Len(input) /\ pos0 > 0
    /\ ret = FALSE

C7_SlotInv ==
    /\ (Done /\ ret = FALSE) => result_symbol = sym0
    /\ (Done /\ ret = TRUE) => result_symbol = UNQUOTED_WHITESPACE

(* C7: the result slot is written only on success (on a false return it     *)
(* holds its value from before the call, also after a consumed backslash;   *)
(* on a true return it is UNQUOTED_WHITESPACE), and the statements of scan  *)
(* change nothing besides the cursor position and that slot.                *)
C7_SlotOnlyOnSuccess ==
    /\ []C7_SlotInv
    /\ [][Running => UNCHANGED <<input, valid_symbols, payload, handle,
                                 serLen, buffer>>]_vars

C7_Witness ==
    /\ Done /\ ret = FALSE /\ consumed = 1 /\ sym0 = OtherSymbol

(* C8: a call that starts from the same lexer state and valid_symbols as    *)
(* the call before it returns the same value, consumes as much and leaves   *)
(* the same result symbol, whatever payload either call got and whatever    *)
(* hooks ran in between; serialize returns 0 and writes nothing.            *)
C8_Deterministic ==
    /\ (Done /\ prev # None) =>
          /\ ret = prev[1].ret
          /\ consumed = prev[1].consumed
          /\ result_symbol = prev[1].sym
    /\ serLen \in {None, <<0>>}
    /\ buffer = <<>>

C8_Witness ==
    /\ Done /\ prev # None /\ prev[1].payload # payload
    /\ first = Backslash /\ ret = TRUE /\ consumed = 2
    /\ handle = <<NULL>> /\ serLen = <<0>>

(* C9 as stated: the advance past the backslash is flagged differently from *)
(* the advances over the whitespace run, and the token's text is the        *)
(* whitespace run without the backslash.                                    *)
C9_BackslashExcluded ==
    (Done /\ valid /\ first = Backslash /\ ret = TRUE) =>
        /\ advances[1].skip # advances[2].skip
        /\ TokenText = Slice(input, pos0 + 1, consumed - 1)

(* C9 amended: the advance past the backslash is made with the same flag    *)
(* (skip = false) as the advances over the whitespace run, so on a          *)
(* successful scan the token's text is the backslash followed by the run.   *)
C9_BackslashIncluded ==
    (Done /\ valid /\ first = Backslash) =>
        /\ advances[1] = [ch |-> Backslash, skip |-> FALSE]
        /\ \A i \in 1..Len(advances) : advances[i].skip = FALSE
        /\ ret = TRUE => TokenText = Slice(input, pos0, consumed)

C9_Witness ==
    /\ Done /\ valid /\ first = Backslash /\ ret = TRUE
    /\ TokenText = <<Backslash, Space, Newline>>

(* C10 as stated: for every valid-symbol set, the number of advance calls   *)
(* is (1 if the initial lookahead is a backslash and the symbol is valid,   *)
(* else 0) plus the length of the whitespace run that follows.              *)
C10_AdvanceCountAnyValid ==
    Done => Len(advances) =
              IF valid /\ first = Backslash
              THEN 1 + RunLen(input, pos0 + 1)
              ELSE RunLen(input, pos0)

C10_Inv ==
    /\ pos <= Len(input)
    /\ \A i \in 1..Len(advances) : advances[i].ch # EOF
    /\ pos = pos0 + Len(advances)
    /\ Done => Len(advances) =
                 IF ~valid THEN 0
                 ELSE IF first = Backslash
                      THEN 1 + RunLen(input, pos0 + 1)
                      ELSE RunLen(input, pos0)

(* C10 amended: every call terminates; it makes no advance call when the    *)
(* symbol is not valid and otherwise (1 if the initial lookahead is a       *)
(* backslash, else 0) plus the length of the whitespace run that follows;   *)
(* it never advances at end of stream and never moves past the end.         *)
C10_TerminatesWithCount ==
    /\ []C10_Inv
    /\ Running ~> Done

C10_Witness ==
    /\ Done /\ valid /\ first = Backslash
    /\ Len(advances) = 3 /\ pos = Len(input) /\ lookahead = EOF

=============================================================================
